---- MODULE Spec2Model ----
(***************************************************************************)
(* Model of vmas/scenarios/navigation.py: the navigation scenario of the   *)
(* vectorized multi-agent simulator (make_world, reset_world_at, reward,   *)
(* agent_reward, observation, done, info).                                 *)
(*                                                                         *)
(* Numbers.  Lengths and rewards are fixed-point integers in units of      *)
(* 0.005 (the scenario's min_collision_distance): 0.05 is 10, 0.1 is 20,   *)
(* 1.0 is 200.  A batched tensor is a function over Envs = 1..batch_dim;   *)
(* a per-agent tensor is indexed [e][i], i the index in world.agents.      *)
(* torch.linalg.vector_norm is the integer square root of the squared      *)
(* length; the points used keep every comparison against a radius or a     *)
(* threshold exact.                                                        *)
(***************************************************************************)
EXTENDS Integers, Sequences, FiniteSets, TLC

VARIABLES
    phase,                \* "new" | "built" | "failed": make_world's outcome
    request,              \* the arguments given to make_world
    batch_dim,            \* number of environments in the batch
    config,               \* self.config
    pos,                  \* agent.state.pos            [e][i] -> point
    vel,                  \* agent.state.vel            [e][i] -> vector
    goal_pos,             \* agent.goal.state.pos       [e][i] -> point
    pos_shaping,          \* agent.pos_shaping          [e][i]
    agent_pos_rew,        \* agent.pos_rew              [e][i]
    agent_collision_rew,  \* agent.agent_collision_rew  [e][i]
    on_goal,              \* agent.on_goal              [e][i]
    distance_to_goal,     \* agent.distance_to_goal     [e][i]
    pos_rew,              \* self.pos_rew               [e]
    final_rew,            \* self.final_rew             [e]
    all_goal_reached,     \* self.all_goal_reached      [e]
    goal_poses,           \* history: the goal positions last drawn, [e][g]
    init_dist,            \* history: agent-goal distance at the last reset
    cum_rew,              \* history: sum of agent.pos_rew since the last reset
    evaluated,            \* history: reward(agents[0]) ran since positions changed
    streak,               \* history: consecutive evaluated steps with all on goal
    ret                   \* history: the last call and the value it returned

vars == <<phase, request, batch_dim, config, pos, vel, goal_pos, pos_shaping,
          agent_pos_rew, agent_collision_rew, on_goal, distance_to_goal,
          pos_rew, final_rew, all_goal_reached, goal_poses, init_dist,
          cum_rew, evaluated, streak, ret>>

world_vars == <<pos, vel, goal_pos>>
scratch_vars == <<pos_shaping, agent_pos_rew, agent_collision_rew, on_goal,
                  distance_to_goal, pos_rew, final_rew, all_goal_reached>>
history_vars == <<goal_poses, init_dist, cum_rew, evaluated, streak>>
setup_vars == <<phase, request, batch_dim, config>>

----------------------------------------------------------------------------
(* Bounds of the model *)

\* the streak counter stops counting here
MaxStreak == 2

\* largest agents_with_same_goal / n_agents offered to make_world
MaxAgents == 4

----------------------------------------------------------------------------
(* Fixed-point values of the program's constants *)

\* self.min_collision_distance = 0.005
min_collision_distance == 1

\* Sphere() default radius of a Landmark (0.05): agent.goal.shape.radius
goal_shape_radius == 10

\* env_index=None (the environments are numbered from 1)
None == 0

\* BaseNavigationConfig's defaults (0.1 -> 20, 0.35 -> 70, 0.01 -> 2, -1.0 -> -200)
BaseNavigationConfig ==
    [ n_agents                |-> 4,
      collisions              |-> TRUE,
      world_spawning_x        |-> 200,
      world_spawning_y        |-> 200,
      agents_with_same_goal   |-> 1,
      split_goals             |-> FALSE,
      observe_all_goals       |-> FALSE,
      lidar_range             |-> 70,
      agent_radius            |-> 20,
      n_lidar_rays            |-> 12,
      shared_rew              |-> TRUE,
      pos_shaping_factor      |-> 1,
      final_reward            |-> 2,
      agent_collision_penalty |-> -200 ]

\* BaseNavigationConfig(**kwargs): the defaults, overridden field by field
WithFields(n, k, coll, split) ==
    [BaseNavigationConfig EXCEPT !.n_agents = n, !.agents_with_same_goal = k,
                                 !.collisions = coll, !.split_goals = split]

----------------------------------------------------------------------------
(* Vectors *)

Sub(p, q) == <<p[1] - q[1], p[2] - q[2]>>

RECURSIVE IsqrtBetween(_, _, _)
\* the r with lo <= r < hi and r*r <= s < (r+1)*(r+1)
IsqrtBetween(s, lo, hi) ==
    IF hi - lo <= 1 THEN lo
    ELSE LET mid == (lo + hi) \div 2
         IN IF mid * mid <= s THEN IsqrtBetween(s, mid, hi)
                              ELSE IsqrtBetween(s, lo, mid)

\* torch.linalg.vector_norm(v, dim=-1), rounded down to the unit
norm_of(v) == IsqrtBetween(v[1] * v[1] + v[2] * v[2], 0, 256)

\* the positions of the model: the lattice the placement draws from, and
\* where the physics may put an agent: on the first goal candidate, 1 away
\* from it (0.005, inside every radius), 15 away from it (0.075, between the
\* goal's radius and the default agent radius), on the second goal candidate
LatticeWidth(n) == IF n = 1 THEN 2 ELSE n
SpawnCand(n) == { <<60 * k, 60>> : k \in 0..(LatticeWidth(n) - 1) }
GoalCand(n) == { <<60 * k, 0>> : k \in 0..(LatticeWidth(n) - 1) }
GoalPoint == { <<0, 0>> }
OnGoalPoints == { <<0, 0>>, <<1, 0>> }
DonePoints == { <<0, 0>>, <<9, 12>>, <<60, 0>> }
Points ==
    UNION { SpawnCand(n) \cup GoalCand(n) : n \in 1..4 }
    \cup OnGoalPoints \cup DonePoints

\* norm_of, tabulated over the differences of two positions
NormTable == [v \in { Sub(p, q) : p \in Points, q \in Points } |-> norm_of(v)]

vector_norm(v) == NormTable[v]

Envs == 1..batch_dim
Agents == 0..(config.n_agents - 1)

ZeroVec == <<0, 0>>

----------------------------------------------------------------------------
(* make_world *)

\* what a caller can hand to make_world: config=None with keyword fields
\* (kind "kwargs"), a BaseNavigationConfig object (kind "config"), or an object
\* of another type (kind "other"); extra: a keyword that is no field.  The
\* configuration is built from the keywords only when config is None; beside
\* a config object the keywords are not read.
Requests ==
    { [kind |-> kd, fields |-> WithFields(n, k, c, s), extra |-> x] :
        kd \in {"kwargs", "config"}, n \in 0..MaxAgents, k \in 0..(MaxAgents + 1),
        c \in BOOLEAN, s \in BOOLEAN, x \in BOOLEAN }
    \cup { [kind |-> "other", fields |-> BaseNavigationConfig, extra |-> x] :
             x \in BOOLEAN }

\* BaseNavigationConfig(**kwargs) under ConfigDict(extra="forbid")
ValidationError(req) == req.kind = "kwargs" /\ req.extra

AssertionError_collisions_unchecked(req) ==
    LET c == req.fields
    IN \/ req.kind # "kwargs" /\ req.kind # "config"
       \/ ~(1 <= c.agents_with_same_goal /\ c.agents_with_same_goal <= c.n_agents)
       \/ c.split_goals
          /\ ~(c.n_agents % 2 = 0
               /\ c.agents_with_same_goal = c.n_agents \div 2)

\* the assertions of make_world, in order
AssertionError(req) ==
    LET c == req.fields
    IN \/ req.kind # "kwargs" /\ req.kind # "config"
       \/ ~(1 <= c.agents_with_same_goal /\ c.agents_with_same_goal <= c.n_agents)
       \/ c.agents_with_same_goal > 1 /\ c.collisions
       \/ c.split_goals
          /\ ~(c.n_agents % 2 = 0
               /\ c.agents_with_same_goal = c.n_agents \div 2)

make_world_raises(req) == ValidationError(req) \/ AssertionError(req)

\* self.min_distance_between_entities = agent_radius * 2 + 0.05
min_distance_between_entities(c) == c.agent_radius * 2 + 10

\* the world make_world returns: agents and goals, every scratch array zero
Built(req, bd) ==
    LET n == req.fields.n_agents
        z == [e \in 1..bd |-> [i \in 0..(n - 1) |-> 0]]
        zv == [e \in 1..bd |-> [i \in 0..(n - 1) |-> ZeroVec]]
    IN [ config |-> req.fields, pos |-> zv, vel |-> zv, goal_pos |-> zv,
         zero |-> z, zero_env |-> [e \in 1..bd |-> 0],
         false |-> [e \in 1..bd |-> [i \in 0..(n - 1) |-> FALSE]],
         false_env |-> [e \in 1..bd |-> FALSE] ]

NoCall == [op |-> "none"]

\* the scenario object before make_world has run
Unbuilt(req, bd) ==
    /\ phase = "new"
    /\ request = req
    /\ batch_dim = bd
    /\ config = req.fields
    /\ pos = <<>> /\ vel = <<>> /\ goal_pos = <<>>
    /\ pos_shaping = <<>> /\ agent_pos_rew = <<>> /\ agent_collision_rew = <<>>
    /\ on_goal = <<>> /\ distance_to_goal = <<>>
    /\ pos_rew = <<>> /\ final_rew = <<>> /\ all_goal_reached = <<>>
    /\ goal_poses = <<>> /\ init_dist = <<>> /\ cum_rew = <<>>
    /\ evaluated = FALSE /\ streak = <<>>
    /\ ret = NoCall

MakeWorld ==
    /\ phase = "new"
    /\ IF make_world_raises(request)
       THEN /\ phase' = "failed"
            /\ ret' = [op |-> "make_world", val |-> "error"]
            /\ UNCHANGED <<request, batch_dim, config, world_vars, scratch_vars,
                           history_vars>>
       ELSE LET w == Built(request, batch_dim)
            IN /\ phase' = "built"
               /\ config' = w.config
               /\ pos' = w.pos /\ vel' = w.vel /\ goal_pos' = w.goal_pos
               /\ agent_pos_rew' = w.zero
               /\ agent_collision_rew' = w.zero
               /\ pos_rew' = w.zero_env
               /\ final_rew' = w.zero_env
               /\ ret' = [op |-> "make_world", val |-> "world"]
               /\ UNCHANGED <<request, batch_dim, pos_shaping, on_goal,
                              distance_to_goal, all_goal_reached, history_vars>>

InitConfig == \E req \in Requests : Unbuilt(req, 1)

NextConfig == MakeWorld

SpecConfig == InitConfig /\ [][NextConfig]_vars

\* C7: make_world fails exactly for the configurations that violate an
\* invariant: agents_with_same_goal outside [1, n_agents],
\* agents_with_same_goal > 1 with collisions, split_goals with n_agents odd or
\* agents_with_same_goal # n_agents / 2, an unexpected extra field among the
\* keywords the configuration is built from, or a config object of the wrong
\* type; every other configuration is accepted and a world is returned.
C7_FailFast ==
    phase # "new" =>
        LET c == request.fields
            n == c.n_agents
            k == c.agents_with_same_goal
            violation ==
                \/ k < 1 \/ k > n
                \/ k > 1 /\ c.collisions
                \/ c.split_goals /\ (n % 2 = 1 \/ 2 * k # n)
                \/ request.kind = "kwargs" /\ request.extra
                \/ request.kind = "other"
        IN /\ violation <=> (phase = "failed" /\ ret.val = "error")
           /\ ~violation <=> (phase = "built" /\ ret.val = "world")

\* C7 witness: a split-goal configuration with an odd team was rejected
C7_Witness ==
    /\ phase = "failed"
    /\ request.kind = "config"
    /\ request.fields.split_goals
    /\ request.fields.n_agents = 3
    /\ request.fields.agents_with_same_goal = 1
    /\ ~request.fields.collisions

\* C7 witness of acceptance: four agents split two and two
C7_Accepted ==
    /\ phase = "built"
    /\ request.fields.split_goals
    /\ request.fields.n_agents = 4

----------------------------------------------------------------------------
(* Placement: ScenarioUtils.spawn_entities_randomly and                    *)
(* ScenarioUtils.find_random_pos_for_entity draw positions at random, each *)
(* at least min_dist_between_entities from every position already taken   *)
(* and inside the spawning bounds.  The draws are taken from a lattice.    *)

\* (a lone agent still has two places to be drawn at: LatticeWidth)

InBounds(c, p) ==
    /\ -c.world_spawning_x <= p[1] /\ p[1] <= c.world_spawning_x
    /\ -c.world_spawning_y <= p[2] /\ p[2] <= c.world_spawning_y

\* one environment's draws: the agents' positions, then the goal positions
\* goal_poses[0..n-1], every one clear of all positions drawn before it
Placements(c) ==
    LET n == c.n_agents
        far(p, q) == vector_norm(Sub(p, q)) >= min_distance_between_entities(c)
    IN { pl \in [agents : [0..(n - 1) -> SpawnCand(n)],
                 goals : [0..(n - 1) -> GoalCand(n)]] :
           /\ \A i \in 0..(n - 1) :
                /\ InBounds(c, pl.agents[i]) /\ InBounds(c, pl.goals[i])
                /\ \A j \in 0..(n - 1) : far(pl.agents[i], pl.goals[j])
           /\ \A i, j \in 0..(n - 1) :
                i # j => far(pl.agents[i], pl.agents[j])
                         /\ far(pl.goals[i], pl.goals[j]) }

\* a configuration of the run: BaseNavigationConfig(n_agents=..., ...)
RunConfig(n, k, coll, split, shared, factor, radius) ==
    [kind |-> "config", extra |-> FALSE,
     fields |-> [WithFields(n, k, coll, split) EXCEPT
                    !.shared_rew = shared, !.pos_shaping_factor = factor,
                    !.agent_radius = radius]]

ObsConfig(n, k, coll, all_goals, rays) ==
    [kind |-> "kwargs", extra |-> FALSE,
     fields |-> [WithFields(n, k, coll, FALSE) EXCEPT
                    !.observe_all_goals = all_goals, !.n_lidar_rays = rays]]

\* one environment, two agents: own goals with collisions and a shared
\* reward, or one shared goal and individual rewards scaled by 2
StepRequests ==
    { RunConfig(2, 1, TRUE, FALSE, TRUE, 1, 20),
      RunConfig(2, 2, FALSE, FALSE, FALSE, 2, 10) }

\* two agents, agent radius 0.1 (the default) or 0.05
DoneRequests ==
    { RunConfig(2, 1, TRUE, FALSE, TRUE, 1, 20),
      RunConfig(2, 2, FALSE, FALSE, TRUE, 1, 10) }

\* a batch of two environments: one agent rewarded for progress, or two
\* colliding agents whose progress is not rewarded (pos_shaping_factor 0)
BatchRequests ==
    { RunConfig(1, 1, TRUE, FALSE, FALSE, 1, 20),
      RunConfig(2, 1, TRUE, FALSE, FALSE, 0, 20) }

\* three colliding agents; progress is not rewarded (pos_shaping_factor 0)
CollideRequests ==
    { RunConfig(3, 1, TRUE, FALSE, TRUE, 0, 20),
      RunConfig(3, 1, TRUE, FALSE, FALSE, 0, 10) }

\* the goal groupings make_world accepts for two to four agents
GoalRequests ==
    { RunConfig(4, 2, FALSE, TRUE, TRUE, 1, 20),
      RunConfig(3, 3, FALSE, FALSE, TRUE, 1, 20),
      RunConfig(3, 2, FALSE, FALSE, TRUE, 1, 20),
      RunConfig(3, 1, TRUE, FALSE, TRUE, 1, 20),
      RunConfig(2, 1, FALSE, TRUE, TRUE, 1, 20) }

ObsRequests ==
    { ObsConfig(2, 1, TRUE, TRUE, 3),
      ObsConfig(2, 1, TRUE, FALSE, 2),
      ObsConfig(2, 2, FALSE, TRUE, 12),
      ObsConfig(1, 1, FALSE, FALSE, 12) }

RunRequests ==
    StepRequests \cup DoneRequests \cup BatchRequests \cup CollideRequests
    \cup GoalRequests \cup ObsRequests

\* the draws open to each configuration of a run
PlacementTable ==
    [c \in { r.fields : r \in RunRequests } |-> { pl : pl \in Placements(c) }]

----------------------------------------------------------------------------
(* reset_world_at *)

\* the environments a reset with this env_index touches
Selected(bd, env_index) ==
    IF env_index = None THEN 1..bd ELSE {env_index}

goal_index_same(c, i) == i

\* lines 322-325: the goal drawn for agent i
goal_index(c, i) ==
    IF c.split_goals
    THEN i \div c.agents_with_same_goal
    ELSE IF i < c.agents_with_same_goal THEN 0 ELSE i

\* spawn_entities_randomly(..., env_index, ...): entity.set_pos(batch_index)
reset_pos(old, bd, env_index, draw) ==
    [e \in 1..bd |->
        IF e \in Selected(bd, env_index) THEN draw[e].agents ELSE old[e]]

\* agent.goal.set_pos(goal_poses[goal_index], batch_index=env_index)
reset_goal_pos(c, old, bd, env_index, draw) ==
    [e \in 1..bd |->
        IF e \in Selected(bd, env_index)
        THEN [i \in 0..(c.n_agents - 1) |-> draw[e].goals[goal_index(c, i)]]
        ELSE old[e]]

written_whole_batch(bd, env_index) == 1..bd

\* the entries of agent.pos_shaping a reset assigns: all of them
\* (env_index None, line 330) or pos_shaping[env_index] (line 338)
written(bd, env_index) == Selected(bd, env_index)

\* distance * self.config.pos_shaping_factor
shaping(c, d) == d * c.pos_shaping_factor

\* lines 329-343: the shaping baseline from the fresh positions
reset_pos_shaping(c, old, bd, env_index, new_pos, new_goal) ==
    [e \in 1..bd |->
        IF e \in written(bd, env_index)
        THEN [i \in 0..(c.n_agents - 1) |->
                shaping(c, vector_norm(Sub(new_pos[e][i], new_goal[e][i])))]
        ELSE old[e]]

reset_world_at(env_index) ==
    /\ phase = "built"
    /\ \E draw \in [Selected(batch_dim, env_index) -> PlacementTable[config]] :
         LET new_pos == reset_pos(pos, batch_dim, env_index, draw)
             new_goal == reset_goal_pos(config, goal_pos, batch_dim, env_index, draw)
             sel == Selected(batch_dim, env_index)
         IN /\ pos' = new_pos
            /\ goal_pos' = new_goal
            /\ pos_shaping' = reset_pos_shaping(config, pos_shaping, batch_dim,
                                                env_index, new_pos, new_goal)
            /\ goal_poses' = [e \in Envs |->
                                IF e \in sel THEN draw[e].goals ELSE goal_poses[e]]
            /\ init_dist' = [e \in Envs |->
                                IF e \in sel
                                THEN [i \in Agents |->
                                        vector_norm(Sub(new_pos[e][i], new_goal[e][i]))]
                                ELSE init_dist[e]]
            /\ cum_rew' = [e \in Envs |->
                                IF e \in sel THEN [i \in Agents |-> 0] ELSE cum_rew[e]]
            /\ streak' = [e \in Envs |-> IF e \in sel THEN 0 ELSE streak[e]]
    /\ evaluated' = FALSE
    /\ ret' = [op |-> "reset_world_at", env_index |-> env_index]
    /\ UNCHANGED <<setup_vars, vel, agent_pos_rew, agent_collision_rew, on_goal,
                   distance_to_goal, pos_rew, final_rew, all_goal_reached>>

ResetWorldAt == \E env_index \in {None} \cup Envs : reset_world_at(env_index)

\* reset_world_at(env_index) with an environment given
ResetOneEnv == \E env_index \in Envs : reset_world_at(env_index)

\* The environment after construction: make_world accepted the request and
\* reset_world_at(None) placed every environment.  on_goal, distance_to_goal
\* and all_goal_reached are not assigned yet; reward assigns them before it
\* reads them.
Constructed(req, bd) ==
    /\ ~make_world_raises(req)
    /\ phase = "built"
    /\ request = req
    /\ batch_dim = bd
    /\ config = req.fields
    /\ \E draw \in [1..bd -> PlacementTable[req.fields]] :
         LET w == Built(req, bd)
             c == req.fields
             new_pos == reset_pos(w.pos, bd, None, draw)
             new_goal == reset_goal_pos(c, w.goal_pos, bd, None, draw)
         IN /\ pos = new_pos
            /\ goal_pos = new_goal
            /\ vel = w.vel
            /\ pos_shaping = reset_pos_shaping(c, w.zero, bd, None, new_pos, new_goal)
            /\ agent_pos_rew = w.zero
            /\ agent_collision_rew = w.zero
            /\ on_goal = w.false
            /\ distance_to_goal = w.zero
            /\ pos_rew = w.zero_env
            /\ final_rew = w.zero_env
            /\ all_goal_reached = w.false_env
            /\ goal_poses = [e \in 1..bd |-> draw[e].goals]
            /\ init_dist = [e \in 1..bd |-> [i \in 0..(c.n_agents - 1) |->
                               vector_norm(Sub(new_pos[e][i], new_goal[e][i]))]]
            /\ cum_rew = w.zero
            /\ streak = w.zero_env
    /\ evaluated = FALSE
    /\ ret = [op |-> "reset_world_at", env_index |-> None]

----------------------------------------------------------------------------
(* The physics collaborator: world.step() moves the agents.  One agent of  *)
(* one environment is written at a time; several writes make up a step.    *)

SetPos(e, i, p) ==
    /\ phase = "built"
    /\ pos' = [pos EXCEPT ![e][i] = p]
    /\ evaluated' = FALSE
    /\ ret' = [op |-> "step"]
    /\ UNCHANGED <<setup_vars, vel, goal_pos, scratch_vars, goal_poses,
                   init_dist, cum_rew, streak>>

WorldStep(points) ==
    \E e \in Envs, i \in Agents, p \in points : SetPos(e, i, p)

Vels == { <<0, 0>>, <<3, -4>> }

SetVel(e, i, v) ==
    /\ phase = "built"
    /\ vel' = [vel EXCEPT ![e][i] = v]
    /\ ret' = [op |-> "step"]
    /\ UNCHANGED <<setup_vars, pos, goal_pos, scratch_vars, history_vars>>

WorldStepVel == \E e \in Envs, i \in Agents, v \in Vels : SetVel(e, i, v)

----------------------------------------------------------------------------
(* reward and agent_reward *)

\* world.collides(a, b): both agents collide (collide=self.config.collisions)
\* and are different entities
collides(i, j) == config.collisions /\ i # j

\* world.get_distance(a, b): the distance between the two spheres' surfaces
get_distance(e, i, j) ==
    vector_norm(Sub(pos[e][i], pos[e][j])) - 2 * config.agent_radius

shaping_kept(old, new) == old

\* line 218: agent.pos_shaping = pos_shaping
shaping_stored(old, new) == new

\* agent_reward(agent), environment e
agent_reward(e, i) ==
    LET d == vector_norm(Sub(pos[e][i], goal_pos[e][i]))
        new == shaping(config, d)
    IN [ distance_to_goal |-> d,
         on_goal          |-> d < goal_shape_radius,
         pos_rew          |-> pos_shaping[e][i] - new,
         pos_shaping      |-> shaping_stored(pos_shaping[e][i], new) ]

RECURSIVE SumTo(_, _)
\* f[0] + ... + f[n-1]
SumTo(f, n) == IF n = 0 THEN 0 ELSE SumTo(f, n - 1) + f[n - 1]

final_rew_any(e, flags) ==
    IF \E i \in Agents : flags[i] THEN config.final_reward ELSE 0

\* lines 186-191: all_goal_reached and final_rew[all_goal_reached] = final_reward
final_rew_of(e, flags) ==
    IF \A i \in Agents : flags[i] THEN config.final_reward ELSE 0

penalise_first(acc, i, j) ==
    [acc EXCEPT ![i] = @ + config.agent_collision_penalty]

\* lines 199-204: both agents of the pair accrue the penalty
penalise(acc, i, j) ==
    [acc EXCEPT ![i] = @ + config.agent_collision_penalty,
                ![j] = @ + config.agent_collision_penalty]

RECURSIVE collision_loop(_, _, _)
\* lines 193-204: for i, a / for j, b, in order; t counts the (i, j) visited
collision_loop(e, acc, t) ==
    LET n == config.n_agents
        i == t \div n
        j == t % n
    IN IF t >= n * n THEN acc
       ELSE IF i <= j THEN collision_loop(e, acc, t + 1)
       ELSE IF collides(i, j) /\ get_distance(e, i, j) <= min_collision_distance
            THEN collision_loop(e, penalise(acc, i, j), t + 1)
            ELSE collision_loop(e, acc, t + 1)

\* line 206-207: the value reward returns, from the scratch arrays given
reward_value(i, p_rew, a_rew, f_rew, c_rew) ==
    [e \in 1..batch_dim |->
        (IF config.shared_rew THEN p_rew[e] ELSE a_rew[e][i])
        + f_rew[e] + c_rew[e][i]]

\* lines 182-204: the arrays after the pass made for world.agents[0]
first_agent_pos_rew ==
    [e \in Envs |-> [a \in Agents |-> agent_reward(e, a).pos_rew]]

first_on_goal ==
    [e \in Envs |-> [a \in Agents |-> agent_reward(e, a).on_goal]]

first_pos_rew ==
    [e \in Envs |->
        SumTo([a \in Agents |-> agent_reward(e, a).pos_rew], config.n_agents)]

first_final_rew ==
    [e \in Envs |->
        final_rew_of(e, [a \in Agents |-> agent_reward(e, a).on_goal])]

first_collision_rew ==
    [e \in Envs |-> collision_loop(e, [a \in Agents |-> 0], 0)]

\* what reward(agent i) returns when called in the current state
reward_returns(i) ==
    IF i = 0
    THEN reward_value(i, first_pos_rew, first_agent_pos_rew, first_final_rew,
                      first_collision_rew)
    ELSE reward_value(i, pos_rew, agent_pos_rew, final_rew, agent_collision_rew)

reward(i) ==
    /\ phase = "built"
    /\ IF i = 0
       THEN /\ distance_to_goal' =
                 [e \in Envs |-> [a \in Agents |->
                     agent_reward(e, a).distance_to_goal]]
            /\ on_goal' = first_on_goal
            /\ agent_pos_rew' = first_agent_pos_rew
            /\ pos_shaping' =
                 [e \in Envs |-> [a \in Agents |-> agent_reward(e, a).pos_shaping]]
            /\ pos_rew' = first_pos_rew
            /\ all_goal_reached' =
                 [e \in Envs |-> \A a \in Agents : on_goal'[e][a]]
            /\ final_rew' = first_final_rew
            /\ agent_collision_rew' = first_collision_rew
            /\ cum_rew' = [e \in Envs |-> [a \in Agents |->
                              cum_rew[e][a] + agent_pos_rew'[e][a]]]
            /\ streak' = [e \in Envs |->
                            IF all_goal_reached'[e]
                            THEN IF evaluated \/ streak[e] >= MaxStreak
                                 THEN streak[e] ELSE streak[e] + 1
                            ELSE 0]
            /\ evaluated' = TRUE
            /\ ret' = [op |-> "reward", agent |-> i,
                       val |-> reward_value(i, pos_rew', agent_pos_rew',
                                            final_rew', agent_collision_rew')]
       ELSE /\ ret' = [op |-> "reward", agent |-> i, val |-> reward_returns(i)]
            /\ UNCHANGED <<scratch_vars, cum_rew, streak, evaluated>>
    /\ UNCHANGED <<setup_vars, world_vars, goal_poses, init_dist>>

Reward == \E i \in Agents : reward(i)

----------------------------------------------------------------------------
(* done and info *)

\* lines 242-253
done_value ==
    [e \in Envs |->
        \A i \in Agents :
            vector_norm(Sub(pos[e][i], goal_pos[e][i])) < config.agent_radius]

Done ==
    /\ phase = "built"
    /\ ret' = [op |-> "done", val |-> done_value]
    /\ UNCHANGED <<setup_vars, world_vars, scratch_vars, history_vars>>

\* lines 255-260
info_value(i) ==
    [ pos_rew |-> [e \in Envs |->
                      IF config.shared_rew THEN pos_rew[e] ELSE agent_pos_rew[e][i]],
      final_rew |-> final_rew,
      agent_collisions |-> [e \in Envs |-> agent_collision_rew[e][i]] ]

Info ==
    /\ phase = "built"
    /\ \E i \in Agents : ret' = [op |-> "info", agent |-> i, val |-> info_value(i)]
    /\ UNCHANGED <<setup_vars, world_vars, scratch_vars, history_vars>>

----------------------------------------------------------------------------
(* observation *)

\* Lidar.measure(): one range per ray; max_range where the ray hits nothing
measure(e, i) == [k \in 1..config.n_lidar_rays |-> config.lidar_range]

RECURSIVE goal_blocks(_, _, _)
\* lines 224-225: agent.state.pos - a.goal.state.pos for a in world.agents[:n]
goal_blocks(e, i, n) ==
    IF n = 0 THEN <<>>
    ELSE goal_blocks(e, i, n - 1) \o Sub(pos[e][i], goal_pos[e][n - 1])

observed_goals_own(e, i) == Sub(pos[e][i], goal_pos[e][i])

\* lines 222-227: goal_poses
observed_goals(e, i) ==
    IF config.observe_all_goals
    THEN goal_blocks(e, i, config.n_agents)
    ELSE Sub(pos[e][i], goal_pos[e][i])

\* lines 228-240: torch.cat([pos, vel] + goal_poses + lidar, dim=-1)
observation_value(i) ==
    [e \in Envs |->
        pos[e][i] \o vel[e][i] \o observed_goals(e, i)
        \o (IF config.collisions
            THEN [k \in 1..config.n_lidar_rays |->
                    config.lidar_range - measure(e, i)[k]]
            ELSE <<>>)]

Observation ==
    /\ phase = "built"
    /\ \E i \in Agents : ret' = [op |-> "observation", agent |-> i,
                               val |-> observation_value(i)]
    /\ UNCHANGED <<setup_vars, world_vars, scratch_vars, history_vars>>

----------------------------------------------------------------------------
(* Specifications *)

\* one environment, two agents; the reward is queried in any order
Init == \E req \in StepRequests : Constructed(req, 1)

Next == ResetWorldAt \/ WorldStep(OnGoalPoints) \/ Reward

Spec == Init /\ [][Next]_vars

\* termination and diagnostics of one environment with two agents
InitDone == \E req \in DoneRequests : Constructed(req, 1)

NextDone == ResetWorldAt \/ WorldStep(DonePoints) \/ Done \/ Info

SpecDone == InitDone /\ [][NextDone]_vars

\* a batch of two environments, reset together at first, then one at a time
InitBatch == \E req \in BatchRequests : Constructed(req, 2)

NextBatch == ResetOneEnv \/ WorldStep(GoalPoint) \/ Reward

SpecBatch == InitBatch /\ [][NextBatch]_vars

\* three agents that collide
InitCollide == \E req \in CollideRequests : Constructed(req, 1)

NextCollide == WorldStep(OnGoalPoints) \/ Reward

SpecCollide == InitCollide /\ [][NextCollide]_vars

\* the goal groupings, under repeated resets
InitGoals == \E req \in GoalRequests : Constructed(req, 1)

NextGoals == ResetWorldAt

SpecGoals == InitGoals /\ [][NextGoals]_vars

\* observations: two agents in one environment, or one agent in two
InitObs ==
    \E req \in ObsRequests :
        Constructed(req, IF req.fields.n_agents = 1 THEN 2 ELSE 1)

NextObs == ResetWorldAt \/ WorldStep(OnGoalPoints) \/ WorldStepVel \/ Observation

SpecObs == InitObs /\ [][NextObs]_vars

----------------------------------------------------------------------------
(* Properties *)

\* the distance between agent i and its goal in environment e, now
DistNow(e, i) == vector_norm(Sub(pos[e][i], goal_pos[e][i]))

\* every agent of e is within the goal's radius of its goal, now
AllOnGoalNow(e) == \A i \in Agents : DistNow(e, i) < goal_shape_radius

\* C1: over any trajectory that starts at a reset, once the rewards of the
\* current positions are evaluated, the sum of an agent's per-step progress
\* rewards equals pos_shaping_factor * (distance to goal at the reset -
\* distance to goal now), whatever path was taken.
C1_Telescoping ==
    evaluated =>
        \A e \in Envs : \A i \in Agents :
            cum_rew[e][i] =
                config.pos_shaping_factor * (init_dist[e][i] - DistNow(e, i))

\* C1 witness: an agent's sum is made of at least two non-zero step rewards
C1_Witness ==
    /\ evaluated
    /\ \E e \in Envs : \E i \in Agents :
         /\ agent_pos_rew[e][i] # 0
         /\ cum_rew[e][i] # 0
         /\ cum_rew[e][i] # agent_pos_rew[e][i]
         /\ config.pos_shaping_factor = 2

\* C3 as stated: the terminal bonus is in the rewards only on the step at
\* which all agents first become on-goal, never on a later step of the same
\* stay on the goals.
C3_BonusOnlyOnFirstStep ==
    \A e \in Envs :
        (evaluated /\ streak[e] >= 2) => final_rew[e] = 0

\* C3 amended: whenever reward(world.agents[0]) has been evaluated for the
\* current positions, the reward returned to every agent includes
\* final_reward exactly if all agents of the environment are on-goal now:
\* on the first such step and on every later step they stay on-goal.
C3_BonusWhileAllOnGoal ==
    (evaluated /\ ret.op = "reward") =>
        \A e \in Envs :
            LET bonus == IF AllOnGoalNow(e) THEN config.final_reward ELSE 0
                progress == IF config.shared_rew THEN pos_rew[e]
                            ELSE agent_pos_rew[e][ret.agent]
            IN /\ final_rew[e] = bonus
               /\ ret.val[e] = progress + bonus + agent_collision_rew[e][ret.agent]

\* C3 witness: the second agent is paid the bonus on a later step of a stay
C3_Witness ==
    /\ evaluated
    /\ ret.op = "reward"
    /\ ret.agent = 1
    /\ \E e \in Envs : streak[e] >= 2 /\ final_rew[e] = config.final_reward
                       /\ AllOnGoalNow(e)

\* C4: with the positions fixed, calling reward again for the same agent
\* returns the same value.
C4_Idempotent ==
    [][ (ret.op = "reward" /\ ret'.op = "reward" /\ ret'.agent = ret.agent)
        => ret'.val = ret.val ]_vars

\* C2 as stated: done() is true exactly if every agent is closer to its goal
\* than the goal's radius.
C2_DoneIffWithinGoalRadius ==
    ret.op = "done" => \A e \in Envs : ret.val[e] = AllOnGoalNow(e)

\* two agents overlap: they can collide and their surfaces are within the
\* collision threshold
Overlap(e, i, j) ==
    /\ i # j
    /\ config.collisions
    /\ get_distance(e, i, j) <= min_collision_distance

\* C5: after the reward computation, each agent's collision accumulator is
\* agent_collision_penalty times the number of agents it overlaps, so the
\* two agents of a pair are charged the same amount for the pair, once.
C5_SymmetricPenalty ==
    evaluated =>
        \A e \in Envs : \A i \in Agents :
            agent_collision_rew[e][i] =
                config.agent_collision_penalty
                * Cardinality({ j \in Agents : Overlap(e, i, j) })

\* C5 witness: one agent overlaps one other, another agent overlaps none
C5_Witness ==
    /\ evaluated
    /\ \E e \in Envs : \E i, j \in Agents :
         /\ agent_collision_rew[e][i] = config.agent_collision_penalty
         /\ agent_collision_rew[e][j] = 0

\* C5 witness: an agent overlaps two others at once
C5_WitnessTwo ==
    /\ evaluated
    /\ \E e \in Envs : \E i \in Agents :
         agent_collision_rew[e][i] = 2 * config.agent_collision_penalty

\* C6: after a reset agent i's goal sits at the position drawn for goal
\* index g(i): i // agents_with_same_goal under split_goals, otherwise 0 for
\* the first agents_with_same_goal agents and i for the others.  Agents with
\* the same index share one position, other agents have separate draws.
C6_GoalAssignment ==
    LET n == config.n_agents
        k == config.agents_with_same_goal
        g(i) == IF config.split_goals THEN i \div k
                ELSE IF i < k THEN 0 ELSE i
    IN \A e \in Envs :
         /\ \A i \in Agents : goal_pos[e][i] = goal_poses[e][g(i)]
         /\ \A i, j \in Agents :
              (goal_pos[e][i] = goal_pos[e][j]) <=> (g(i) = g(j))
         /\ (k = n /\ ~config.split_goals) =>
              \A i \in Agents : goal_pos[e][i] = goal_poses[e][0]
         /\ (n = 4 /\ k = 2 /\ config.split_goals) =>
              /\ goal_pos[e][0] = goal_poses[e][0]
              /\ goal_pos[e][1] = goal_poses[e][0]
              /\ goal_pos[e][2] = goal_poses[e][1]
              /\ goal_pos[e][3] = goal_poses[e][1]

\* C6 witness: four agents split two and two, after a reset of environment 1
C6_Witness ==
    /\ config.n_agents = 4
    /\ config.split_goals
    /\ ret.op = "reset_world_at"
    /\ ret.env_index = 1
    /\ goal_pos[1][0] = goal_pos[1][1]
    /\ goal_pos[1][2] = goal_pos[1][3]
    /\ goal_pos[1][1] # goal_pos[1][2]

\* C8: observation(agent) has length 4 + (2 * n_agents if observe_all_goals
\* else 2) + (n_lidar_rays if collisions else 0) for every agent and every
\* environment, and with observe_all_goals the goal blocks are in agent order.
C8_ObservationLength ==
    ret.op = "observation" =>
        \A e \in Envs :
            LET obs == ret.val[e]
                i == ret.agent
            IN /\ Len(obs) =
                    4 + (IF config.observe_all_goals
                         THEN 2 * config.n_agents ELSE 2)
                      + (IF config.collisions THEN config.n_lidar_rays ELSE 0)
               /\ config.observe_all_goals =>
                    \A a \in Agents :
                        <<obs[5 + 2 * a], obs[6 + 2 * a]>>
                            = Sub(pos[e][i], goal_pos[e][a])

\* C8 witness: the second agent observes both goals and its lidar
C8_Witness ==
    /\ ret.op = "observation"
    /\ ret.agent = 1
    /\ config.observe_all_goals
    /\ config.collisions
    /\ Len(ret.val[1]) = 11
    /\ goal_pos[1][0] # goal_pos[1][1]

\* C9 as stated: right after reset_world_at the scratch fields of the reset
\* environments hold nothing of the episode before: the per-agent reward and
\* collision accumulators, the on-goal flag and the shared positional and
\* terminal rewards are back at their initial values.
C9_ScratchReset ==
    ret.op = "reset_world_at" =>
        \A e \in Selected(batch_dim, ret.env_index) :
            /\ pos_rew[e] = 0
            /\ final_rew[e] = 0
            /\ \A i \in Agents :
                 /\ agent_pos_rew[e][i] = 0
                 /\ agent_collision_rew[e][i] = 0
                 /\ ~on_goal[e][i]

\* C10: reset_world_at(env_index = e) sets the shaping baseline of every
\* agent in e to pos_shaping_factor times the fresh distance to its goal and
\* leaves the baseline, the reward caches and the collision accumulators of
\* every other environment unchanged, and with them the value reward would
\* return there for each agent.
C10_SingleEnvReset ==
    [][ (ret'.op = "reset_world_at" /\ ret'.env_index # None) =>
          LET e == ret'.env_index
          IN /\ \A i \in Agents :
                  pos_shaping'[e][i] =
                      config.pos_shaping_factor
                      * vector_norm(Sub(pos'[e][i], goal_pos'[e][i]))
             /\ \A o \in Envs \ {e} :
                  /\ pos_shaping'[o] = pos_shaping[o]
                  /\ agent_pos_rew'[o] = agent_pos_rew[o]
                  /\ agent_collision_rew'[o] = agent_collision_rew[o]
                  /\ pos_rew'[o] = pos_rew[o]
                  /\ final_rew'[o] = final_rew[o]
                  /\ \A i \in Agents :
                       reward_returns(i)'[o] = reward_returns(i)[o] ]_vars

\* C10 witness: environment 1 was reset alone while environment 2 held a
\* shaping baseline that its agent has since moved away from
C10_Witness ==
    /\ ret.op = "reset_world_at"
    /\ ret.env_index = 1
    /\ agent_pos_rew[2][0] # 0
    /\ pos_shaping[2][0] # config.pos_shaping_factor * DistNow(2, 0)
    /\ pos_shaping[1][0] # 0

====
